---- MODULE Spec2Model ----
(***************************************************************************)
(* Model of the channel ingestion / validation core of                    *)
(* src/Backend/main/app.py: the manifest parser (parse_m3u_index), the    *)
(* channel cache (_load_channels), the probe (validate_channel_entry),    *)
(* the request-scoped validation (validate_channels_for_list), the bulk   *)
(* validation job (validate_all_channels) and its trigger endpoint.       *)
(*                                                                         *)
(* The program runs on one asyncio event loop: code between two awaits is *)
(* one atomic step, so every action below is the code between two         *)
(* suspension points of one coroutine.                                     *)
(***************************************************************************)
EXTENDS Integers, Sequences, FiniteSets, TLC

\* ------------------------------------------------------------------------
\* Bounds of the model
\* ------------------------------------------------------------------------
\* longest manifest text (in lines) given to the parser
MaxLines == 4

\* ------------------------------------------------------------------------
\* Python values
\* ------------------------------------------------------------------------
\* Python's None, distinct from every string of the model
None == "<None>"

\* truthiness of an optional string: None and "" are falsy
Truthy(x) == x # None /\ x # ""

\* Python's `a or b` on optional strings
Or(a, b) == IF Truthy(a) THEN a ELSE b

\* ------------------------------------------------------------------------
\* Manifest text.  A text is a sequence of lines.  A line is one of
\*   [kind |-> "extinf", dur, attrs, comma, name]  a line starting with
\*        #EXTINF; dur: ":<digits>" follows; attrs: the key="value" pieces
\*        in order (key "" stands for a piece ATTR_RE does not match);
\*        comma: the line has the "," that separates the display name;
\*        name: the text after that comma
\*   [kind |-> "comment"]   another line starting with '#'
\*   [kind |-> "url", text] a line that is neither empty nor starts with '#'
\*   [kind |-> "blank"]     the empty line
\*   [kind |-> "spaces"]    a line of white space only
\* ------------------------------------------------------------------------
BlankLine == [kind |-> "blank"]

\* ln.strip(): a white-space-only line becomes the empty line
Strip(ln) == IF ln.kind = "spaces" THEN BlankLine ELSE ln

\* lines = [ln.strip() for ln in text.splitlines()]
StripAll(text) == [i \in 1..Len(text) |-> Strip(text[i])]

\* ln.startswith('#EXTINF')
IsExtinf(ln) == ln.kind = "extinf"

\* lines[j] == "" or lines[j].startswith('#')
IsSkipped(ln) == ln.kind = "blank" \/ ln.kind = "comment" \/ ln.kind = "extinf"

\* EXTINF_RE.match(ln): needs the duration and the separating comma
ExtinfMatches(ln) == ln.dur /\ ln.comma

\* the dict built by `for attr_m in ATTR_RE.finditer(raw_attrs): attrs[k] = v`,
\* read with attrs.get(k): the last matching piece wins, None when absent
RECURSIVE AttrGet(_, _)
AttrGet(pieces, k) ==
    IF pieces = <<>> THEN None
    ELSE LET last == pieces[Len(pieces)]
         IN IF last[1] = k /\ k # "" THEN last[2]
            ELSE AttrGet(SubSeq(pieces, 1, Len(pieces) - 1), k)

\* attrs of one #EXTINF line: {} when the regex does not match
ExtinfAttrs(ln) == IF ExtinfMatches(ln) THEN ln.attrs ELSE <<>>

\* display_name of one #EXTINF line: None when the regex does not match
ExtinfName(ln) == IF ExtinfMatches(ln) THEN ln.name ELSE None

\* the item dict built for one #EXTINF line and the url found for it
MakeItem(attrs, last_name, url) ==
    [id       |-> Or(Or(AttrGet(attrs, "tvg-id"), AttrGet(attrs, "id")), None),
     name     |-> Or(Or(AttrGet(attrs, "tvg-name"), last_name), None),
     tvg_name |-> Or(Or(AttrGet(attrs, "tvg-name"), last_name), None),
     tvg_id   |-> Or(AttrGet(attrs, "tvg-id"), None),
     tvg_logo |-> Or(AttrGet(attrs, "tvg-logo"), None),
     group    |-> Or(Or(AttrGet(attrs, "group-title"), AttrGet(attrs, "group")), None),
     language |-> Or(Or(AttrGet(attrs, "tvg-language"), AttrGet(attrs, "language")), None),
     country  |-> Or(Or(AttrGet(attrs, "tvg-country"), AttrGet(attrs, "country")), None),
     url      |-> url]

\* mutant of NextUrlLine: the scan for the url line starts one line too far
RECURSIVE NextUrlLine_OffByOne(_, _)
NextUrlLine_OffByOne(lines, j) ==
    IF j + 1 <= Len(lines) /\ IsSkipped(lines[j + 1])
    THEN NextUrlLine_OffByOne(lines, j + 1)
    ELSE j + 1

\* j = i + 1; while j < len(lines) and (lines[j] == "" or lines[j].startswith('#')): j += 1
\* (1-based here: the result is Len(lines) + 1 when the scan runs off the end)
RECURSIVE NextUrlLine(_, _)
NextUrlLine(lines, j) ==
    IF j <= Len(lines) /\ IsSkipped(lines[j])
    THEN NextUrlLine(lines, j + 1)
    ELSE j

\* the while loop of parse_m3u_index from index i with the items built so far
RECURSIVE ParseLoop(_, _, _)
ParseLoop(lines, i, items) ==
    IF i > Len(lines) THEN items
    ELSE IF IsExtinf(lines[i])
         THEN LET j == NextUrlLine(lines, i + 1)
              IN IF j <= Len(lines)
                 THEN ParseLoop(lines, j + 1,
                                Append(items, MakeItem(ExtinfAttrs(lines[i]),
                                                       ExtinfName(lines[i]),
                                                       lines[j].text)))
                 ELSE ParseLoop(lines, i + 1, items)
         ELSE ParseLoop(lines, i + 1, items)

\* parse_m3u_index(text)
parse_m3u_index(text) == ParseLoop(StripAll(text), 1, <<>>)

\* ------------------------------------------------------------------------
\* Probe classifier.  A text (content-type value, codec name, sample line)
\* is a sequence of tokens, so that `x in s`, startswith, endswith and
\* lower() are computed.  The content-type of a header set is <<>> when the
\* header is absent or empty (headers.get("content-type") or "").  A sample
\* is a sequence of lines, <<>> standing for None (r.content empty); a line
\* is [toks |-> tokens of the line, codecs |-> the codec names inside the
\* first CODECS="..." of the line, <<>> when the line has none].
\* ------------------------------------------------------------------------
\* s.lower() on one token
LowerTok(t) ==
    CASE t = "MPEGURL" -> "mpegurl"
      [] t = "Application" -> "application"
      [] t = "VIDEO" -> "video"
      [] t = "AVC" -> "avc"
      [] t = "MP4A" -> "mp4a"
      [] OTHER -> t

\* s.lower()
Lower(s) == [i \in 1..Len(s) |-> LowerTok(s[i])]

\* sub in s
Contains(s, sub) ==
    \E i \in 0..(Len(s) - Len(sub)) : SubSeq(s, i + 1, i + Len(sub)) = sub

\* s.endswith(sub)
EndsWith(s, sub) ==
    Len(s) >= Len(sub) /\ SubSeq(s, Len(s) - Len(sub) + 1, Len(s)) = sub

\* mutant of CtIsMpegurl: only the Apple type is taken for a manifest type
CtIsMpegurl_AppleOnly(ct) == Contains(ct, <<"vnd.apple.", "mpegurl">>)

\* "mpegurl" in ct or "vnd.apple.mpegurl" in ct or
\* "application/vnd.apple.mpegurl" in ct or ct.endswith("m3u8")
CtIsMpegurl(ct) ==
    \/ Contains(ct, <<"mpegurl">>)
    \/ Contains(ct, <<"vnd.apple.", "mpegurl">>)
    \/ Contains(ct, <<"application", "/", "vnd.apple.", "mpegurl">>)
    \/ EndsWith(ct, <<"m3u8">>)

\* "#EXTM3U" in s or "#EXTINF" in s or "#EXT-X-STREAM-INF" in s
HasPlaylistMarker(sample) ==
    \E i \in 1..Len(sample) :
        \/ Contains(sample[i].toks, <<"#EXTM3U">>)
        \/ Contains(sample[i].toks, <<"#EXTINF">>)
        \/ Contains(sample[i].toks, <<"#EXT-X-STREAM-INF">>)

\* codecs_found: the lower-cased codec names of every line that starts with
\* #EXT-X-STREAM-INF and carries CODECS="...", in line order
RECURSIVE CodecsFound(_)
CodecsFound(sample) ==
    IF sample = <<>> THEN <<>>
    ELSE LET line == sample[1]
             here == IF line.toks # <<>> /\ line.toks[1] = "#EXT-X-STREAM-INF"
                     THEN [i \in 1..Len(line.codecs) |-> Lower(line.codecs[i])]
                     ELSE <<>>
         IN here \o CodecsFound(Tail(sample))

\* mutant of CodecOk: every codec name is taken for a playable one
CodecOk_Any(c) == TRUE

\* "avc" in c or "h264" in c or "mp4a" in c or "aac" in c
CodecOk(c) ==
    \/ Contains(c, <<"avc">>) \/ Contains(c, <<"h264">>)
    \/ Contains(c, <<"mp4a">>) \/ Contains(c, <<"aac">>)

\* sample[:12].startswith(b'\x00\x00\x00') and b'ftyp' in sample[:64]
LooksLikeMp4(sample) ==
    /\ sample[1].toks # <<>>
    /\ sample[1].toks[1] = "000"
    /\ Contains(sample[1].toks, <<"ftyp">>)

\* the reason None
NoReason == <<>>

\* _detect_hls_from_headers_and_sample(headers, sample): [hls, reason]
detect_hls(headers_ct, sample) ==
    LET ct == Lower(headers_ct)
        found == CodecsFound(sample)
    IN IF CtIsMpegurl(ct)
       THEN [hls |-> TRUE, reason |-> <<"content-type indicates mpegurl", ct>>]
       ELSE IF sample # <<>> /\ HasPlaylistMarker(sample)
       THEN IF found # <<>>
            THEN IF \E i \in 1..Len(found) : CodecOk(found[i])
                 THEN [hls |-> TRUE, reason |-> <<"playlist with CODECS", found>>]
                 ELSE [hls |-> FALSE,
                       reason |-> <<"playlist with unrecognized CODECS", found>>]
            ELSE [hls |-> TRUE, reason |-> <<"playlist markers present">>]
       ELSE IF sample # <<>> /\ LooksLikeMp4(sample)
       THEN [hls |-> FALSE, reason |-> <<"sample indicates fMP4/MP4 fragment">>]
       ELSE IF Contains(ct, <<"video">>)
       THEN [hls |-> FALSE, reason |-> <<"content-type video but not m3u8", ct>>]
       ELSE [hls |-> FALSE, reason |-> NoReason]

\* ------------------------------------------------------------------------
\* One probe.  A response is [status, ct, sample]; status 0 with no
\* headers and no sample is what _head_or_get returns when both attempts
\* raised.  Times are integers, NoTime standing for None.
\* ------------------------------------------------------------------------
NoTime == -1

\* what _head_or_get returns when HEAD did not answer 200 and GET raised
NoResponse == [status |-> 0, ct |-> <<>>, sample |-> <<>>]

\* mutant of probe_result: a failed probe is not stamped
probe_result_UnstampedFailure(resp, t) ==
    IF resp.status = 0 \/ resp.status >= 400
    THEN [working |-> FALSE, hls_compatible |-> FALSE, last_checked |-> NoTime,
          check_error |-> <<"HTTP status", resp.status>>]
    ELSE [working |-> TRUE,
          hls_compatible |-> detect_hls(resp.ct, resp.sample).hls,
          last_checked |-> t,
          check_error |-> detect_hls(resp.ct, resp.sample).reason]

\* validate_channel_entry after _head_or_get returned resp at time t
probe_result(resp, t) ==
    IF resp.status = 0 \/ resp.status >= 400
    THEN [working |-> FALSE, hls_compatible |-> FALSE, last_checked |-> t,
          check_error |-> <<"HTTP status", resp.status>>]
    ELSE LET d == detect_hls(resp.ct, resp.sample)
         IN [working |-> (200 <= resp.status /\ resp.status < 400),
             hls_compatible |-> d.hls,
             last_checked |-> t,
             check_error |-> d.reason]

\* an exception object handed back by asyncio.gather(return_exceptions=True),
\* written as a record so that the results of a gather are of one shape
ExcResult ==
    [working |-> FALSE, hls_compatible |-> FALSE, last_checked |-> NoTime,
     check_error |-> <<"<exception object>">>]

\* isinstance(res, Exception)
IsException(res) == res = ExcResult

\* the dict stored in place of an exception object at time t
FromException(t) ==
    [working |-> FALSE, hls_compatible |-> FALSE, last_checked |-> t,
     check_error |-> <<"str(exception)">>]

\* ------------------------------------------------------------------------
\* Program constants.  The source values (10 probes, chunks of at least 10,
\* 30 minutes) are scaled down so that the admission gate saturates, a run
\* needs more than one chunk and a cache entry goes stale with a handful of
\* channels and clock ticks; every formula below is stated in terms of the
\* names, not of the values.
\* ------------------------------------------------------------------------
\* CHANNEL_VALIDATE_CONCURRENCY = 10
CHANNEL_VALIDATE_CONCURRENCY == 1

\* the 10 of chunk_size = max(10, CHANNEL_VALIDATE_CONCURRENCY * 2)
MIN_CHUNK == 2

\* CHANNEL_CACHE_TTL = timedelta(minutes=30), in clock ticks
CHANNEL_CACHE_TTL == 2

\* ------------------------------------------------------------------------
\* Bounds of the concurrent model
\* ------------------------------------------------------------------------
\* trigger requests (POST validate-all) made in one behaviour
MaxTriggers == 2

\* read requests (GET channels, channels/count, channels/summary) made in
\* one behaviour
MaxRequests == 2

\* last value of the clock
MaxTime == 2

\* the page size (limit) and the last page number a listing request asks for
PageLimit == 2
MaxPage == 2

\* ------------------------------------------------------------------------
\* The remote manifest: what a fetch of CHANNEL_INDEX_URL may return
\* ------------------------------------------------------------------------
HeaderLine == [kind |-> "comment"]

MetaLine(id, name) ==
    [kind |-> "extinf", dur |-> TRUE, attrs |-> << <<"tvg-id", id>> >>,
     comma |-> TRUE, name |-> name]

UrlLine(u) == [kind |-> "url", text |-> u]

\* a manifest that parses to zero records
TextEmpty == << HeaderLine >>

\* a manifest of three channels
TextThree == << HeaderLine, MetaLine("a", "A"), UrlLine("u1"),
                MetaLine("b", "B"), UrlLine("u2"),
                MetaLine("c", "C"), UrlLine("u3") >>

\* a manifest of one channel
TextOne == << HeaderLine, MetaLine("a", "A"), UrlLine("u1") >>

RemoteTexts == {TextEmpty, TextOne, TextThree}

\* ------------------------------------------------------------------------
\* The network: what one HEAD or GET of a stream url may do.  exc: the
\* request raised (timeout, connection or DNS error).
\* ------------------------------------------------------------------------
CtMpegurl == <<"application", "/", "vnd.apple.", "mpegurl">>

NetRaised == [exc |-> TRUE, status |-> 0, ct |-> <<>>, sample |-> <<>>]

NetOk == [exc |-> FALSE, status |-> 200, ct |-> CtMpegurl, sample |-> <<>>]

NetNotFound == [exc |-> FALSE, status |-> 404, ct |-> <<>>, sample |-> <<>>]

\* 500 with a body that is no playlist
NetServerError ==
    [exc |-> FALSE, status |-> 500, ct |-> <<"text", "/", "plain">>,
     sample |-> << [toks |-> <<"xff", "xd8">>, codecs |-> <<>>] >>]

\* a redirect that is not followed further: the final status is 302
NetFound == [exc |-> FALSE, status |-> 302, ct |-> <<>>, sample |-> <<>>]

\* 206 with a playlist body and no manifest content-type
NetPartial ==
    [exc |-> FALSE, status |-> 206, ct |-> <<"text", "/", "plain">>,
     sample |-> << [toks |-> <<"#EXTM3U">>, codecs |-> <<>>] >>]

\* 101 as the final status, with a manifest content-type
NetSwitching == [exc |-> FALSE, status |-> 101, ct |-> CtMpegurl, sample |-> <<>>]

NetOutcomes ==
    {NetRaised, NetOk, NetNotFound, NetServerError, NetFound, NetPartial,
     NetSwitching}

\* ------------------------------------------------------------------------
\* State
\* ------------------------------------------------------------------------
VARIABLES
    now,            \* datetime.utcnow()
    cache_items,    \* _channels_cache["items"]: <<>> for None, else <<[oid, list]>>
    last_loaded,    \* _channels_cache["last_loaded"]
    validated_map,  \* _channels_cache["validated_map"]: url -> result
    cache_lock,     \* _channels_cache["lock"]: its holder, or Free
    list_count,     \* lists built by parse_m3u_index so far (object identity)
    job,            \* _validation_job
    trig,           \* trigger requests: the reply each got
    task,           \* validate_all_channels background tasks, one per trigger
    req,            \* list_channels, channels_count and channels_summary requests
    load,           \* _load_channels calls, one per caller
    gather,         \* the probes of the asyncio.gather a caller awaits
    m3u_text,       \* parser harness: the text given to parse_m3u_index
    m3u_out,        \* parser harness: <<>> before the call, else <<items>>
    hls_in,         \* classifier harness: the [ct, sample] given to the classifier
    hls_out         \* classifier harness: <<>> before the call, else <<[hls, reason]>>

vars == <<now, cache_items, last_loaded, validated_map, cache_lock, list_count,
          job, trig, task, req, load, gather, m3u_text, m3u_out,
                   hls_in, hls_out>>

Free == <<"free", 0>>
TrigIds == 1..MaxTriggers
ReqIds == 1..MaxRequests
Tid(i) == <<"task", i>>
Rid(i) == <<"req", i>>
Pids == {Tid(i) : i \in TrigIds} \cup {Rid(i) : i \in ReqIds}

Max(a, b) == IF a >= b THEN a ELSE b
Min(a, b) == IF a <= b THEN a ELSE b

\* mutant of Slice: the slice runs to the end of the list
Slice_ToEnd(s, a, b) == SubSeq(s, (IF a <= Len(s) THEN a ELSE Len(s)) + 1, Len(s))

\* items[a:b] of Python (0-based, half-open) on a 1-based sequence
Slice(s, a, b) == SubSeq(s, Min(a, Len(s)) + 1, Min(b, Len(s)))

\* mutant of Put: the assignment drops the other keys
Put_Only(d, k, v) == [x \in {k} |-> v]

\* d[k] = v on a dict
Put(d, k, v) == [x \in (DOMAIN d) \cup {k} |-> IF x = k THEN v ELSE d[x]]

\* waited_for: the holder of the cache lock when the call was made
IdleLoad == [pc |-> "none", force |-> FALSE, waited_for |-> Free, ret |-> <<>>]

IdleTask == [pc |-> "none", force |-> FALSE, items |-> <<>>, idx |-> 0, total |-> 0]

IdleJob == [running |-> FALSE, started_at |-> NoTime, finished_at |-> NoTime,
            total |-> 0, validated |-> 0, errors |-> 0,
            progress |-> [num |-> 0, den |-> 1]]

IdleReq == [kind |-> "none", pc |-> "none", refresh |-> FALSE, validate |-> FALSE,
            working_only |-> FALSE, page |-> 1, page_items |-> <<>>,
            entries |-> <<>>, out |-> <<>>]

InitSystem ==
    /\ now = 0
    /\ cache_items = <<>>
    /\ last_loaded = NoTime
    /\ validated_map = <<>>
    /\ cache_lock = Free
    /\ list_count = 0
    /\ job = IdleJob
    /\ trig = [i \in TrigIds |-> "none"]
    /\ task = [i \in TrigIds |-> IdleTask]
    /\ req = [i \in ReqIds |-> IdleReq]
    /\ load = [p \in Pids |-> IdleLoad]
    /\ gather = [p \in Pids |-> <<>>]

\* the classifier harness when it is not used
NoClassify ==
    /\ hls_in = [ct |-> <<>>, sample |-> <<>>]
    /\ hls_out = <<>>

Init ==
    /\ InitSystem
    /\ m3u_text = <<>>
    /\ m3u_out = <<>>
    /\ NoClassify

\* the clock advances
Tick ==
    /\ now < MaxTime
    /\ now' = now + 1
    /\ UNCHANGED <<cache_items, last_loaded, validated_map, cache_lock, list_count,
                   job, trig, task, req, load, gather, m3u_text, m3u_out,
                   hls_in, hls_out>>

\* ------------------------------------------------------------------------
\* _load_channels(force).  The caller first waits for the cache lock
\* (pc "wait"); holding it, it either returns the cached list at once or
\* awaits the fetch (pc "fetch") and then stores what it parsed.
\* ------------------------------------------------------------------------
\* the load record of a caller that has just called _load_channels(force)
CallLoad(force) ==
    [IdleLoad EXCEPT !.pc = "wait", !.force = force, !.waited_for = cache_lock]

\* the list held by a cache_items value
ListOf(ci) == IF ci = <<>> THEN <<>> ELSE ci[1].list

\* if items and last_loaded: if not force and (utcnow() - last_loaded < TTL)
\* (`items` is falsy for None and for the empty list)
CacheFresh(ci, loaded, force, t) ==
    /\ ci # <<>> /\ ci[1].list # <<>>
    /\ loaded # NoTime
    /\ ~force
    /\ t - loaded < CHANNEL_CACHE_TTL

\* mutant of LockDuringFetch: the fetch is awaited outside the lock
LockDuringFetch_Released(p) == Free

\* the holder of the cache lock while p awaits the fetch (async with lock)
LockDuringFetch(p) == p

\* async with lock: ... return _channels_cache["items"], or start the fetch
LoadEnter(p) ==
    /\ load[p].pc = "wait"
    /\ cache_lock = Free
    /\ LET hit == CacheFresh(cache_items, last_loaded, load[p].force, now)
       IN /\ load' = [load EXCEPT ![p] =
                        [@ EXCEPT !.pc = IF hit THEN "ret" ELSE "fetch",
                                  !.ret = IF hit THEN cache_items ELSE <<>>]]
          /\ cache_lock' = IF hit THEN Free ELSE LockDuringFetch(p)
    /\ UNCHANGED <<now, cache_items, last_loaded, validated_map, list_count,
                   job, trig, task, req, gather, m3u_text, m3u_out,
                   hls_in, hls_out>>

\* the fetch returned text: parse it, store list and time, release the lock
FetchOk(p, text) ==
    /\ load[p].pc = "fetch"
    /\ LET stored == << [oid |-> list_count + 1, list |-> parse_m3u_index(text)] >>
       IN /\ cache_items' = stored
          /\ load' = [load EXCEPT ![p] = [@ EXCEPT !.pc = "ret", !.ret = stored]]
    /\ list_count' = list_count + 1
    /\ last_loaded' = now
    /\ cache_lock' = IF cache_lock = p THEN Free ELSE cache_lock
    /\ UNCHANGED <<now, validated_map, job, trig, task, req, gather,
                   m3u_text, m3u_out,
                   hls_in, hls_out>>

\* mutant of FailedFetchItems: a failed fetch leaves an empty list behind
FailedFetchItems_Cleared(ci) == << [oid |-> 0, list |-> <<>>] >>

\* _channels_cache["items"] after _fetch_channel_index_text raised
FailedFetchItems(ci) == ci

\* the fetch raised (transport error or raise_for_status): the exception
\* leaves `async with lock`, which releases the lock, and reaches the caller
FetchFail(p) ==
    /\ load[p].pc = "fetch"
    /\ load' = [load EXCEPT ![p] = [@ EXCEPT !.pc = "raise"]]
    /\ cache_items' = FailedFetchItems(cache_items)
    /\ cache_lock' = IF cache_lock = p THEN Free ELSE cache_lock
    /\ UNCHANGED <<now, last_loaded, validated_map, list_count,
                   job, trig, task, req, gather, m3u_text, m3u_out,
                   hls_in, hls_out>>

\* ------------------------------------------------------------------------
\* Probes: validate_channel_entry under the semaphore of its caller
\* ------------------------------------------------------------------------
\* the local `status` of validate_channel_entry before _head_or_get returned
NoStatus == -1

\* a probe: status is what _head_or_get returned, res the result dict
NewProbe(url) == [url |-> url, pc |-> "wait", res |-> <<>>, status |-> NoStatus]

\* probes of caller p that hold a permit of p's semaphore
InFlight(p) ==
    Cardinality({k \in DOMAIN gather[p] : gather[p][k].pc \in {"head", "get"}})

\* probes in flight in the whole process
InFlightTotal ==
    Cardinality(UNION {{<<p, k>> : k \in {j \in DOMAIN gather[p] :
                                             gather[p][j].pc \in {"head", "get"}}} :
                       p \in Pids})

\* async with sem: a permit of the caller's Semaphore(CHANNEL_VALIDATE_CONCURRENCY)
GateOpen(p) == InFlight(p) < CHANNEL_VALIDATE_CONCURRENCY

\* the probe is admitted and sends its HEAD request
ProbeStart(p, k) ==
    /\ k \in DOMAIN gather[p]
    /\ gather[p][k].pc = "wait"
    /\ GateOpen(p)
    /\ gather' = [gather EXCEPT ![p][k].pc = "head"]
    /\ UNCHANGED <<now, cache_items, last_loaded, validated_map, cache_lock,
                   list_count, job, trig, task, req, load, m3u_text, m3u_out,
                   hls_in, hls_out>>

\* HEAD answered: 200 ends _head_or_get with no sample, else GET is sent
ProbeHead(p, k, out) ==
    /\ k \in DOMAIN gather[p]
    /\ gather[p][k].pc = "head"
    /\ IF ~out.exc /\ out.status = 200
       THEN gather' = [gather EXCEPT ![p][k] =
                [@ EXCEPT !.pc = "done",
                          !.status = 200,
                          !.res = << probe_result([status |-> 200, ct |-> out.ct,
                                                   sample |-> <<>>], now) >>]]
       ELSE gather' = [gather EXCEPT ![p][k].pc = "get"]
    /\ UNCHANGED <<now, cache_items, last_loaded, validated_map, cache_lock,
                   list_count, job, trig, task, req, load, m3u_text, m3u_out,
                   hls_in, hls_out>>

\* GET answered or raised: validate_channel_entry builds its result
ProbeGet(p, k, out) ==
    /\ k \in DOMAIN gather[p]
    /\ gather[p][k].pc = "get"
    /\ LET resp == IF out.exc THEN NoResponse
                   ELSE [status |-> out.status, ct |-> out.ct, sample |-> out.sample]
       IN gather' = [gather EXCEPT ![p][k] =
                [@ EXCEPT !.pc = "done", !.status = resp.status,
                          !.res = << probe_result(resp, now) >>]]
    /\ UNCHANGED <<now, cache_items, last_loaded, validated_map, cache_lock,
                   list_count, job, trig, task, req, load, m3u_text, m3u_out,
                   hls_in, hls_out>>

\* the probe coroutine ended with an exception of its own: gather keeps it
\* as the result of that probe (the permit is released by `async with sem`)
ProbeRaise(p, k) ==
    /\ k \in DOMAIN gather[p]
    /\ gather[p][k].pc \in {"head", "get"}
    /\ gather' = [gather EXCEPT ![p][k] = [@ EXCEPT !.pc = "done", !.res = <<ExcResult>>]]
    /\ UNCHANGED <<now, cache_items, last_loaded, validated_map, cache_lock,
                   list_count, job, trig, task, req, load, m3u_text, m3u_out,
                   hls_in, hls_out>>

AllDone(p) == \A k \in DOMAIN gather[p] : gather[p][k].pc = "done"

\* ------------------------------------------------------------------------
\* The bulk validation job: trigger_validate_all and validate_all_channels
\* ------------------------------------------------------------------------
\* chunk_size = max(10, CHANNEL_VALIDATE_CONCURRENCY * 2)
chunk_size == Max(MIN_CHUNK, CHANNEL_VALIDATE_CONCURRENCY * 2)

\* mutant of WithUrl: only the first record is taken
WithUrl_First(items) == IF items = <<>> THEN <<>> ELSE <<items[1]>>

\* [it for it in items if it.get("url")]
RECURSIVE WithUrl(_)
WithUrl(items) ==
    IF items = <<>> THEN <<>>
    ELSE IF Truthy(items[1].url) THEN <<items[1]>> \o WithUrl(Tail(items))
         ELSE WithUrl(Tail(items))

\* the probes gathered for the entries es
ProbesFor(es) == [k \in 1..Len(es) |-> NewProbe(es[k].url)]

\* mutant of Finally: the finally block stamps the time and leaves running set
Finally_StillRunning(j, t) == [j EXCEPT !.finished_at = t]

\* the finally block of validate_all_channels
Finally(j, t) == [j EXCEPT !.running = FALSE, !.finished_at = t]

\* mutant of AlreadyRunning: the admission test is dropped
AlreadyRunning_Never(j) == FALSE

\* if _validation_job["running"]
AlreadyRunning(j) == j.running

\* POST validate-all: 409 when a run is in progress, else create_task and
\* acknowledge; the task takes its first step later
Trigger(i, force) ==
    /\ trig[i] = "none"
    /\ (i > 1 => trig[i - 1] # "none")
    /\ IF AlreadyRunning(job)
       THEN /\ trig' = [trig EXCEPT ![i] = "conflict"]
            /\ UNCHANGED task
       ELSE /\ trig' = [trig EXCEPT ![i] = "ack"]
            /\ task' = [task EXCEPT ![i] = [IdleTask EXCEPT !.pc = "created",
                                                             !.force = force]]
    /\ UNCHANGED <<now, cache_items, last_loaded, validated_map, cache_lock,
                   list_count, job, req, load, gather, m3u_text, m3u_out,
                   hls_in, hls_out>>

\* first step of validate_all_channels: under the job lock, return when a
\* run is in progress, else mark the job running, reset it, and call
\* _load_channels(force_refresh)
TaskStart(i) ==
    /\ task[i].pc = "created"
    /\ IF AlreadyRunning(job)
       THEN /\ task' = [task EXCEPT ![i].pc = "skipped"]
            /\ UNCHANGED <<job, load>>
       ELSE /\ job' = [running |-> TRUE, started_at |-> now,
                       finished_at |-> NoTime, total |-> 0, validated |-> 0,
                       errors |-> 0, progress |-> [num |-> 0, den |-> 1]]
            /\ task' = [task EXCEPT ![i].pc = "loading"]
            /\ load' = [load EXCEPT ![Tid(i)] = CallLoad(task[i].force)]
    /\ UNCHANGED <<now, cache_items, last_loaded, validated_map, cache_lock,
                   list_count, trig, req, gather, m3u_text, m3u_out,
                   hls_in, hls_out>>

\* _load_channels returned: count the urls; finish at once when there is
\* none, else gather the first chunk of probes
TaskLoaded(i) ==
    /\ task[i].pc = "loading"
    /\ load[Tid(i)].pc = "ret"
    /\ LET items == ListOf(load[Tid(i)].ret)
           tasks == WithUrl(items)
       IN IF Len(tasks) = 0
          THEN /\ job' = Finally([job EXCEPT !.total = 0], now)
               /\ task' = [task EXCEPT ![i].pc = "done"]
               /\ UNCHANGED gather
          ELSE /\ job' = [job EXCEPT !.total = Len(tasks)]
               /\ task' = [task EXCEPT ![i] = [@ EXCEPT !.pc = "gather",
                                                        !.items = items,
                                                        !.idx = 0,
                                                        !.total = Len(tasks)]]
               /\ gather' = [gather EXCEPT ![Tid(i)] =
                                ProbesFor(Slice(tasks, 0, chunk_size))]
    /\ UNCHANGED <<now, cache_items, last_loaded, validated_map, cache_lock,
                   list_count, trig, req, load, m3u_text, m3u_out,
                   hls_in, hls_out>>

\* _load_channels raised: the finally block runs, the task ends
TaskLoadFailed(i) ==
    /\ task[i].pc = "loading"
    /\ load[Tid(i)].pc = "raise"
    /\ job' = Finally(job, now)
    /\ task' = [task EXCEPT ![i].pc = "failed"]
    /\ UNCHANGED <<now, cache_items, last_loaded, validated_map, cache_lock,
                   list_count, trig, req, load, gather, m3u_text, m3u_out,
                   hls_in, hls_out>>

\* the positions of the probes of one gather: a chunk of the bulk run or
\* the page of a listing request
ProbeIds == 1..Max(chunk_size, PageLimit)

\* mutant of ProgressOf: the share of the urls still without a result
ProgressOf_Remaining(map, total) ==
    [num |-> Max(0, total - Cardinality(DOMAIN map)) * 100, den |-> total]

\* progress = (len(validated_map) / total) * 100.0, kept as a fraction
ProgressOf(map, total) == [num |-> Cardinality(DOMAIN map) * 100, den |-> total]

\* mutant of StoreChunk: every returned result is counted as validated
RECURSIVE StoreChunk_CountAll(_, _, _, _)
StoreChunk_CountAll(st, results, slice_items, k) ==
    IF k > Len(results) THEN st
    ELSE LET res == results[k]
             map2 == [x \in (DOMAIN st.map) \cup {slice_items[k].url} |->
                         IF x # slice_items[k].url THEN st.map[x]
                         ELSE IF IsException(res) THEN FromException(now) ELSE res]
             job2 == [st.job EXCEPT
                        !.errors = IF IsException(res) THEN @ + 1 ELSE @,
                        !.validated = IF IsException(res) THEN @ ELSE @ + 1,
                        !.progress = [num |-> Cardinality(DOMAIN map2) * 100,
                                      den |-> st.job.total]]
         IN StoreChunk_CountAll([map |-> map2, job |-> job2], results,
                                slice_items, k + 1)

\* mutant of StoreChunk: the result of a failed probe is not recorded
RECURSIVE StoreChunk_SkipFailed(_, _, _, _)
StoreChunk_SkipFailed(st, results, slice_items, k) ==
    IF k > Len(results) THEN st
    ELSE IF IsException(results[k]) \/ ~results[k].working
         THEN StoreChunk_SkipFailed(st, results, slice_items, k + 1)
         ELSE StoreChunk_SkipFailed(
                 [map |-> Put(st.map, slice_items[k].url, results[k]),
                  job |-> [st.job EXCEPT !.validated = @ + 1]],
                 results, slice_items, k + 1)

\* for i, res in enumerate(results): store res under the url of
\* slice_items[i] (an exception object as an error dict), count it,
\* recompute progress.  st = [map, job]
RECURSIVE StoreChunk(_, _, _, _)
StoreChunk(st, results, slice_items, k) ==
    IF k > Len(results) THEN st
    ELSE LET url == IF k <= Len(slice_items) THEN slice_items[k].url ELSE None
             res == results[k]
             map2 == Put(st.map, url,
                         IF IsException(res) THEN FromException(now) ELSE res)
             job2 == [st.job EXCEPT
                        !.errors = IF IsException(res) THEN @ + 1 ELSE @,
                        !.validated = IF ~IsException(res) /\ res.working
                                      THEN @ + 1 ELSE @,
                        !.progress = ProgressOf(map2, st.job.total)]
         IN StoreChunk([map |-> map2, job |-> job2], results, slice_items, k + 1)

\* gather of one chunk returned: store its results, then gather the next
\* chunk or leave the client context
TaskChunkDone(i) ==
    /\ task[i].pc = "gather"
    /\ AllDone(Tid(i))
    /\ LET g == gather[Tid(i)]
           results == [k \in 1..Len(g) |-> g[k].res[1]]
           slice_items == Slice(task[i].items, task[i].idx, task[i].idx + chunk_size)
           st == StoreChunk([map |-> validated_map, job |-> job], results,
                            slice_items, 1)
           idx2 == task[i].idx + chunk_size
       IN /\ validated_map' = st.map
          /\ job' = st.job
          /\ IF idx2 < task[i].total
             THEN /\ task' = [task EXCEPT ![i].idx = idx2]
                  /\ gather' = [gather EXCEPT ![Tid(i)] =
                        ProbesFor(Slice(WithUrl(task[i].items), idx2,
                                        idx2 + chunk_size))]
             ELSE /\ task' = [task EXCEPT ![i] = [@ EXCEPT !.pc = "closing",
                                                           !.idx = idx2]]
                  /\ gather' = [gather EXCEPT ![Tid(i)] = <<>>]
    /\ UNCHANGED <<now, cache_items, last_loaded, cache_lock, list_count,
                   trig, req, load, m3u_text, m3u_out,
                   hls_in, hls_out>>

\* the client is closed and the finally block runs
TaskFinish(i) ==
    /\ task[i].pc = "closing"
    /\ job' = Finally(job, now)
    /\ task' = [task EXCEPT ![i].pc = "done"]
    /\ UNCHANGED <<now, cache_items, last_loaded, validated_map, cache_lock,
                   list_count, trig, req, load, gather, m3u_text, m3u_out,
                   hls_in, hls_out>>

\* ------------------------------------------------------------------------
\* Request-scoped validation: validate_channels_for_list(entries)
\* ------------------------------------------------------------------------
\* mutant of NeedsProbe: every entry with a url is probed again
NeedsProbe_IgnoreFresh(e, map, t) == Truthy(e.url)

\* the entry is given a probe: it has a url, and no result younger than the
\* freshness window is cached for it (a result without last_checked makes
\* fromisoformat raise, which is swallowed)
NeedsProbe(e, map, t) ==
    /\ Truthy(e.url)
    /\ ~ (/\ e.url \in DOMAIN map
          /\ map[e.url].last_checked # NoTime
          /\ t - map[e.url].last_checked < CHANNEL_CACHE_TTL)

\* the entries for which validate_channels_for_list appends a task
RECURSIVE ToProbe(_, _, _)
ToProbe(entries, map, t) ==
    IF entries = <<>> THEN <<>>
    ELSE IF NeedsProbe(entries[1], map, t)
         THEN <<entries[1]>> \o ToProbe(Tail(entries), map, t)
         ELSE ToProbe(Tail(entries), map, t)

\* idx = 0; for e in entries: skip entries without url; while idx <
\* len(results): validated_map[url] = results[idx]; idx += 1
RECURSIVE Attach(_, _, _, _)
Attach(map, entries, results, idx) ==
    IF entries = <<>> THEN map
    ELSE IF ~Truthy(entries[1].url) THEN Attach(map, Tail(entries), results, idx)
    ELSE IF idx < Len(results)
         THEN Attach(Put(map, entries[1].url,
                         IF IsException(results[idx + 1]) THEN FromException(now)
                         ELSE results[idx + 1]),
                     Tail(entries), results, idx + 1)
         ELSE Attach(map, Tail(entries), results, idx)

\* ------------------------------------------------------------------------
\* GET channels: list_channels with q absent (the full index)
\* ------------------------------------------------------------------------
\* Channel.working as the response shows it
WorkingOf(map, url) ==
    IF Truthy(url) /\ url \in DOMAIN map
    THEN (IF map[url].working THEN "True" ELSE "False")
    ELSE None

\* out: one Channel per page item with the cached validation attached
BuildOut(page_items, map) ==
    [k \in 1..Len(page_items) |->
        [url |-> page_items[k].url, working |-> WorkingOf(map, page_items[k].url)]]

\* mutant of OnlyWorking: the filter lets every channel pass
OnlyWorking_All(out) == out

\* [c for c in out if c.working]
RECURSIVE OnlyWorking(_)
OnlyWorking(out) ==
    IF out = <<>> THEN <<>>
    ELSE IF out[1].working = "True" THEN <<out[1]>> \o OnlyWorking(Tail(out))
         ELSE OnlyWorking(Tail(out))

\* to_validate: the page items whose url has no entry in validated_map
RECURSIVE Missing(_, _)
Missing(page_items, map) ==
    IF page_items = <<>> THEN <<>>
    ELSE IF Truthy(page_items[1].url) /\ page_items[1].url \notin DOMAIN map
         THEN <<page_items[1]>> \o Missing(Tail(page_items), map)
         ELSE Missing(Tail(page_items), map)

\* a call of validate_channels_for_list(entries) by request rq at pc `at`:
\* the request and the probes it gathers (none: it only closes its client)
BeginValidate(rq, entries, at) ==
    LET tasks == ToProbe(entries, validated_map, now)
    IN [req |-> [rq EXCEPT !.entries = entries,
                           !.pc = IF tasks # <<>> THEN at ELSE at \o "close"],
        probes |-> ProbesFor(tasks)]

\* the code after the optional first validation: build out; with
\* working_only validate the page items that have no result, else answer
Assemble(rq) ==
    LET out == BuildOut(rq.page_items, validated_map)
        missing == Missing(rq.page_items, validated_map)
    IN IF rq.working_only /\ missing # <<>>
       THEN BeginValidate([rq EXCEPT !.out = out], missing, "v2")
       ELSE [req |-> [rq EXCEPT !.pc = "done",
                                !.out = IF rq.working_only THEN OnlyWorking(out)
                                        ELSE out],
             probes |-> <<>>]

\* the request arrives and calls _load_channels(force=refresh)
ListStart(r, refresh, validate, working_only, page) ==
    /\ req[r].pc = "none"
    /\ (r > 1 => req[r - 1].pc # "none")
    /\ req' = [req EXCEPT ![r] = [IdleReq EXCEPT !.kind = "list",
                                                  !.pc = "loading",
                                                  !.refresh = refresh,
                                                  !.validate = validate,
                                                  !.working_only = working_only,
                                                  !.page = page]]
    /\ load' = [load EXCEPT ![Rid(r)] = CallLoad(refresh)]
    /\ UNCHANGED <<now, cache_items, last_loaded, validated_map, cache_lock,
                   list_count, job, trig, task, gather, m3u_text, m3u_out,
                   hls_in, hls_out>>

\* _load_channels returned: paginate, then validate the page or assemble
ListLoaded(r) ==
    /\ req[r].kind = "list"
    /\ req[r].pc = "loading"
    /\ load[Rid(r)].pc = "ret"
    /\ LET items == ListOf(load[Rid(r)].ret)
           start == (req[r].page - 1) * PageLimit
           rq == [req[r] EXCEPT !.page_items = Slice(items, start, start + PageLimit)]
           nxt == IF rq.validate THEN BeginValidate(rq, rq.page_items, "v1")
                  ELSE Assemble(rq)
       IN /\ req' = [req EXCEPT ![r] = nxt.req]
          /\ gather' = [gather EXCEPT ![Rid(r)] = nxt.probes]
    /\ UNCHANGED <<now, cache_items, last_loaded, validated_map, cache_lock,
                   list_count, job, trig, task, load, m3u_text, m3u_out,
                   hls_in, hls_out>>

\* _load_channels raised: the request fails (the exception leaves the handler)
ReqLoadFailed(r) ==
    /\ req[r].pc = "loading"
    /\ load[Rid(r)].pc = "raise"
    /\ req' = [req EXCEPT ![r].pc = "failed"]
    /\ UNCHANGED <<now, cache_items, last_loaded, validated_map, cache_lock,
                   list_count, job, trig, task, load, gather, m3u_text, m3u_out,
                   hls_in, hls_out>>

\* the gather of a validate_channels_for_list call returned: attach results
ListGathered(r) ==
    /\ req[r].pc \in {"v1", "v2"}
    /\ AllDone(Rid(r))
    /\ LET g == gather[Rid(r)]
           results == [k \in 1..Len(g) |-> g[k].res[1]]
       IN validated_map' = Attach(validated_map, req[r].entries, results, 0)
    /\ req' = [req EXCEPT ![r].pc = @ \o "close"]
    /\ gather' = [gather EXCEPT ![Rid(r)] = <<>>]
    /\ UNCHANGED <<now, cache_items, last_loaded, cache_lock, list_count,
                   job, trig, task, load, m3u_text, m3u_out,
                   hls_in, hls_out>>

\* the first validation has closed its client: assemble the response
ListAssemble(r) ==
    /\ req[r].pc = "v1close"
    /\ LET nxt == Assemble(req[r])
       IN /\ req' = [req EXCEPT ![r] = nxt.req]
          /\ gather' = [gather EXCEPT ![Rid(r)] = nxt.probes]
    /\ UNCHANGED <<now, cache_items, last_loaded, validated_map, cache_lock,
                   list_count, job, trig, task, load, m3u_text, m3u_out,
                   hls_in, hls_out>>

\* the working_only validation has closed its client: rebuild out, filter
ListRespond(r) ==
    /\ req[r].pc = "v2close"
    /\ req' = [req EXCEPT ![r] =
                [@ EXCEPT !.pc = "done",
                          !.out = OnlyWorking(BuildOut(req[r].page_items,
                                                       validated_map))]]
    /\ UNCHANGED <<now, cache_items, last_loaded, validated_map, cache_lock,
                   list_count, job, trig, task, load, gather, m3u_text, m3u_out,
                   hls_in, hls_out>>

\* ------------------------------------------------------------------------
\* GET channels/count and GET channels/summary, with q absent
\* ------------------------------------------------------------------------
\* the request arrives and calls _load_channels()
CountStart(r, kind) ==
    /\ req[r].pc = "none"
    /\ (r > 1 => req[r - 1].pc # "none")
    /\ req' = [req EXCEPT ![r] = [IdleReq EXCEPT !.kind = kind, !.pc = "loading"]]
    /\ load' = [load EXCEPT ![Rid(r)] = CallLoad(FALSE)]
    /\ UNCHANGED <<now, cache_items, last_loaded, validated_map, cache_lock,
                   list_count, job, trig, task, gather, m3u_text, m3u_out,
                   hls_in, hls_out>>

\* working_count = sum(1 for v in validated_map.values() if v.get("working"))
WorkingCount(map) == Cardinality({u \in DOMAIN map : map[u].working})

\* _load_channels returned: answer with the counts
CountLoaded(r) ==
    /\ req[r].kind \in {"count", "summary"}
    /\ req[r].pc = "loading"
    /\ load[Rid(r)].pc = "ret"
    /\ LET items == ListOf(load[Rid(r)].ret)
       IN req' = [req EXCEPT ![r] =
            [@ EXCEPT !.pc = "done",
                      !.out = IF req[r].kind = "count"
                              THEN << [total |-> Len(items)] >>
                              ELSE << [parsed_count |-> Len(items),
                                       validated_count |-> Cardinality(DOMAIN validated_map),
                                       working_count |-> WorkingCount(validated_map),
                                       last_loaded |-> last_loaded] >>]]
    /\ UNCHANGED <<now, cache_items, last_loaded, validated_map, cache_lock,
                   list_count, job, trig, task, load, gather, m3u_text, m3u_out,
                   hls_in, hls_out>>

\* ------------------------------------------------------------------------
\* The concurrent system
\* ------------------------------------------------------------------------
Next ==
    \/ Tick
    \/ \E p \in Pids : LoadEnter(p)
    \/ \E p \in Pids, text \in RemoteTexts : FetchOk(p, text)
    \/ \E p \in Pids : FetchFail(p)
    \/ \E p \in Pids, k \in ProbeIds : ProbeStart(p, k)
    \/ \E p \in Pids, k \in ProbeIds, out \in NetOutcomes : ProbeHead(p, k, out)
    \/ \E p \in Pids, k \in ProbeIds, out \in NetOutcomes : ProbeGet(p, k, out)
    \/ \E p \in Pids, k \in ProbeIds : ProbeRaise(p, k)
    \/ \E i \in TrigIds, force \in BOOLEAN : Trigger(i, force)
    \/ \E i \in TrigIds : TaskStart(i)
    \/ \E i \in TrigIds : TaskLoaded(i)
    \/ \E i \in TrigIds : TaskLoadFailed(i)
    \/ \E i \in TrigIds : TaskChunkDone(i)
    \/ \E i \in TrigIds : TaskFinish(i)
    \/ \E r \in ReqIds, refresh, validate, working_only \in BOOLEAN, page \in 1..MaxPage :
            ListStart(r, refresh, validate, working_only, page)
    \/ \E r \in ReqIds, kind \in {"count", "summary"} : CountStart(r, kind)
    \/ \E r \in ReqIds : CountLoaded(r)
    \/ \E r \in ReqIds : ListLoaded(r)
    \/ \E r \in ReqIds : ReqLoadFailed(r)
    \/ \E r \in ReqIds : ListGathered(r)
    \/ \E r \in ReqIds : ListAssemble(r)
    \/ \E r \in ReqIds : ListRespond(r)

Spec == Init /\ [][Next]_vars

\* ------------------------------------------------------------------------
\* Sub-systems, each the program with fewer concurrent callers
\* ------------------------------------------------------------------------
\* what the network does in the sub-systems: the request raises or answers 200
NetFew == {NetRaised, NetOk}

\* the bulk job alone: trigger requests and the background tasks they create,
\* with their loads and probes
NextJob ==
    \/ Tick
    \/ \E i \in TrigIds : LoadEnter(Tid(i))
    \/ \E i \in TrigIds, text \in {TextEmpty, TextOne} : FetchOk(Tid(i), text)
    \/ \E i \in TrigIds : FetchFail(Tid(i))
    \/ \E i \in TrigIds, k \in ProbeIds : ProbeStart(Tid(i), k)
    \/ \E i \in TrigIds, k \in ProbeIds, out \in NetFew : ProbeHead(Tid(i), k, out)
    \/ \E i \in TrigIds, k \in ProbeIds, out \in NetFew : ProbeGet(Tid(i), k, out)
    \/ \E i \in TrigIds, force \in BOOLEAN : Trigger(i, force)
    \/ \E i \in TrigIds : TaskStart(i)
    \/ \E i \in TrigIds : TaskLoaded(i)
    \/ \E i \in TrigIds : TaskLoadFailed(i)
    \/ \E i \in TrigIds : TaskChunkDone(i)
    \/ \E i \in TrigIds : TaskFinish(i)

SpecJob == Init /\ [][NextJob]_vars

\* the channel cache alone: read requests calling _load_channels, no probe
\* (the listings neither validate nor filter)
NextLoad ==
    \/ Tick
    \/ \E r \in ReqIds : LoadEnter(Rid(r))
    \/ \E r \in ReqIds, text \in {TextEmpty, TextOne} : FetchOk(Rid(r), text)
    \/ \E r \in ReqIds : FetchFail(Rid(r))
    \/ \E r \in ReqIds, refresh \in BOOLEAN : ListStart(r, refresh, FALSE, FALSE, 1)
    \/ \E r \in ReqIds, kind \in {"count", "summary"} : CountStart(r, kind)
    \/ \E r \in ReqIds : CountLoaded(r)
    \/ \E r \in ReqIds : ListLoaded(r)
    \/ \E r \in ReqIds : ReqLoadFailed(r)

SpecLoad == Init /\ [][NextLoad]_vars

\* the admission gates: one bulk run and one listing request that validates
\* its page, both probing
NextGate ==
    \/ \E p \in {Tid(1), Rid(1)} : LoadEnter(p)
    \/ \E p \in {Tid(1), Rid(1)} : FetchOk(p, TextThree)
    \/ \E p \in {Tid(1), Rid(1)}, k \in ProbeIds : ProbeStart(p, k)
    \/ \E p \in {Tid(1), Rid(1)}, k \in ProbeIds : ProbeHead(p, k, NetOk)
    \/ \E p \in {Tid(1), Rid(1)}, k \in ProbeIds, out \in NetFew : ProbeGet(p, k, out)
    \/ \E p \in {Tid(1), Rid(1)}, k \in ProbeIds : ProbeHead(p, k, NetRaised)
    \/ Trigger(1, FALSE)
    \/ TaskStart(1)
    \/ TaskLoaded(1)
    \/ TaskChunkDone(1)
    \/ TaskFinish(1)
    \/ \E validate, working_only \in BOOLEAN :
            ListStart(1, FALSE, validate, working_only, 1)
    \/ ListLoaded(1)
    \/ ListGathered(1)
    \/ ListAssemble(1)
    \/ ListRespond(1)

SpecGate == Init /\ [][NextGate]_vars

\* ------------------------------------------------------------------------
\* The parser alone: parse_m3u_index applied to every text of at most
\* MaxLines lines over ParseLines
\* ------------------------------------------------------------------------
\* a line starting with #EXTINF that EXTINF_RE does not match (no comma)
BadMetaLine ==
    [kind |-> "extinf", dur |-> TRUE, attrs |-> << <<"tvg-id", "x">> >>,
     comma |-> FALSE, name |-> ""]

ParseLines ==
    {MetaLine("a", "A"), MetaLine("b", "B"), BadMetaLine,
     UrlLine("u1"), UrlLine("u2"),
     HeaderLine, BlankLine, [kind |-> "spaces"]}

ParseTexts == UNION {[1..n -> ParseLines] : n \in 0..MaxLines}

InitParse ==
    /\ InitSystem
    /\ m3u_text \in ParseTexts
    /\ m3u_out = <<>>
    /\ NoClassify

\* items = parse_m3u_index(text)
Parse ==
    /\ m3u_out = <<>>
    /\ m3u_out' = << parse_m3u_index(m3u_text) >>
    /\ UNCHANGED <<now, cache_items, last_loaded, validated_map, cache_lock,
                   list_count, job, trig, task, req, load, gather, m3u_text,
                   hls_in, hls_out>>

NextParse == Parse

SpecParse == InitParse /\ [][NextParse]_vars

\* ------------------------------------------------------------------------
\* Properties of the bulk job (SpecJob)
\* ------------------------------------------------------------------------
\* the tasks past the admission section and before the finally block
Running == {i \in TrigIds : task[i].pc \in {"loading", "gather", "closing"}}

\* C1: in every reachable state at most one execution of
\* validate_all_channels is between setting running=true and its finally
\* block, and the job is marked running while one is
C1_SingleFlight ==
    /\ Cardinality(Running) <= 1
    /\ (Running # {} => job.running)

\* C1 witness: a run is in progress and a second invocation has been turned away
C1_Witness ==
    \E i, j \in TrigIds : task[i].pc = "gather" /\ task[j].pc = "skipped"

\* C2: a start request made while running=true (the trigger endpoint, or
\* the first step of a second validate_all_channels) gets the conflict
\* outcome and changes neither the job state nor the Validation Cache
C2_ConflictLeavesState ==
    [][\A i \in TrigIds :
        /\ (job.running /\ trig[i] = "none" /\ trig'[i] # "none")
              => (trig'[i] = "conflict" /\ task' = task /\ job' = job
                  /\ validated_map' = validated_map)
        /\ (job.running /\ task[i].pc = "created" /\ task'[i].pc # "created")
              => (task'[i].pc = "skipped" /\ job' = job
                  /\ validated_map' = validated_map)]_vars

\* C2 witness: a trigger was answered with the conflict signal during a run
\* that had already stored results
C2_Witness ==
    /\ \E i \in TrigIds : trig[i] = "conflict"
    /\ job.running
    /\ job.total > 0

\* C3 (as claimed): no trigger request is acknowledged without a run of its
\* own starting: the task of an acknowledged request never returns at the
\* admission test
C3_AckMeansOwnRun ==
    \A i \in TrigIds : trig[i] = "ack" => task[i].pc # "skipped"

\* ------------------------------------------------------------------------
\* Properties of the admission gates (SpecGate)
\* ------------------------------------------------------------------------
\* C4 (as claimed): the probes in flight, of the bulk run and of the
\* request-scoped validations together, never exceed CHANNEL_VALIDATE_CONCURRENCY
C4_GlobalGate == InFlightTotal <= CHANNEL_VALIDATE_CONCURRENCY

\* ------------------------------------------------------------------------
\* Properties of the channel cache (SpecLoad)
\* ------------------------------------------------------------------------
\* caller p passes the cache test of _load_channels in this step
Enters(p) == load[p].pc = "wait" /\ load'[p].pc # "wait"

\* C5 (as claimed): _load_channels fetches if and only if force is set, or
\* no previous load exists, or the previous load is not younger than
\* CHANNEL_CACHE_TTL; otherwise it returns the cached list itself, whatever
\* that list holds
C5_FetchIffStale ==
    [][\A p \in Pids :
        Enters(p) =>
            LET must == \/ load[p].force
                        \/ last_loaded = NoTime
                        \/ now - last_loaded >= CHANNEL_CACHE_TTL
            IN /\ (load'[p].pc = "fetch") <=> must
               /\ ~must => (load'[p].pc = "ret" /\ load'[p].ret = cache_items
                            /\ cache_items' = cache_items)]_vars

\* C6: at most one fetch of the channel manifest is in flight, and the
\* cache lock is held by the caller that awaits it
C6_OneFetch ==
    /\ Cardinality({p \in Pids : load[p].pc = "fetch"}) <= 1
    /\ \A p \in Pids : load[p].pc = "fetch" => cache_lock = p

\* C6 witness: one caller awaits the fetch while another waits for the lock
C6_Witness ==
    \E p, q \in Pids : p # q /\ load[p].pc = "fetch" /\ load[q].pc = "wait"

\* C7 (as claimed): a caller with force=false that called while another
\* caller's refresh was in flight, and passes the cache test after that
\* refresh succeeded and within the freshness window of the stored
\* snapshot, returns the stored snapshot and starts no fetch of its own
C7_WaiterNoRefetch ==
    [][\A p \in Pids :
        (/\ Enters(p)
         /\ ~load[p].force
         /\ load[p].waited_for # Free
         /\ load[load[p].waited_for].pc = "ret"
         /\ last_loaded # NoTime
         /\ now - last_loaded < CHANNEL_CACHE_TTL)
        => (load'[p].pc = "ret" /\ load'[p].ret = cache_items)]_vars

\* C8: when the fetch fails, the step leaves items, last_loaded and the
\* Validation Cache as they were and releases the cache lock, and the
\* caller does not complete normally: a request whose load raised never
\* answers
C8_FailedFetchKeepsCache ==
    /\ [][\A p \in Pids :
            (load[p].pc = "fetch" /\ load'[p].pc = "raise")
            => (/\ cache_items' = cache_items
                /\ last_loaded' = last_loaded
                /\ validated_map' = validated_map
                /\ cache_lock' = Free)]_vars
    /\ [](\A r \in ReqIds : load[Rid(r)].pc = "raise" => req[r].pc \in {"loading", "failed"})

\* C8 witness: a request failed on its fetch while a loaded snapshot stayed
\* in the cache, the lock is free and another request was then served
C8_Witness ==
    \E r, r2 \in ReqIds :
        /\ req[r].pc = "failed"
        /\ cache_items # <<>> /\ ListOf(cache_items) # <<>>
        /\ cache_lock = Free
        /\ req[r2].pc = "done"

\* ------------------------------------------------------------------------
\* Properties of the parser (SpecParse)
\* ------------------------------------------------------------------------
\* the indices of the #EXTINF lines from index i on, in order
RECURSIVE MetaIndices(_, _)
MetaIndices(lines, i) ==
    IF i > Len(lines) THEN <<>>
    ELSE IF IsExtinf(lines[i]) THEN <<i>> \o MetaIndices(lines, i + 1)
         ELSE MetaIndices(lines, i + 1)

\* every #EXTINF line is immediately followed by a url line
ImmediatelyFollowed(lines) ==
    \A i \in 1..Len(lines) :
        IsExtinf(lines[i]) => (i < Len(lines) /\ lines[i + 1].kind = "url")

\* C9: when every metadata line is immediately followed by a url line, the
\* parser returns one record per metadata line, in manifest order, built
\* from that line's attributes and name and the url of the next line
C9_OneRecordPerMeta ==
    (m3u_out # <<>> /\ ImmediatelyFollowed(StripAll(m3u_text))) =>
        LET lines == StripAll(m3u_text)
            idx == MetaIndices(lines, 1)
        IN m3u_out[1] =
             [k \in 1..Len(idx) |->
                 MakeItem(ExtinfAttrs(lines[idx[k]]), ExtinfName(lines[idx[k]]),
                          lines[idx[k] + 1].text)]

\* C9 witness: a parsed text of two different metadata lines, each followed
\* by its url, with other lines around them
C9_Witness ==
    /\ m3u_out # <<>>
    /\ ImmediatelyFollowed(StripAll(m3u_text))
    /\ Len(m3u_out[1]) = 2
    /\ m3u_out[1][1].tvg_id = "a" /\ m3u_out[1][1].url = "u2"
    /\ m3u_out[1][2].tvg_id = "b" /\ m3u_out[1][2].url = "u1"

\* the index of the first url or #EXTINF line from index j on
RECURSIVE FirstUrlOrMeta(_, _)
FirstUrlOrMeta(lines, j) ==
    IF j <= Len(lines) /\ lines[j].kind \notin {"url", "extinf"}
    THEN FirstUrlOrMeta(lines, j + 1)
    ELSE j

\* the metadata line at i has a url line before the next metadata line
HasOwnUrl(lines, i) ==
    LET j == FirstUrlOrMeta(lines, i + 1)
    IN j <= Len(lines) /\ lines[j].kind = "url"

\* the records of the metadata lines that have a url line of their own
RECURSIVE OwnRecords(_, _)
OwnRecords(lines, i) ==
    IF i > Len(lines) THEN <<>>
    ELSE IF IsExtinf(lines[i]) /\ HasOwnUrl(lines, i)
         THEN << MakeItem(ExtinfAttrs(lines[i]), ExtinfName(lines[i]),
                          lines[FirstUrlOrMeta(lines, i + 1)].text) >>
              \o OwnRecords(lines, i + 1)
         ELSE OwnRecords(lines, i + 1)

\* C10 (as claimed): a metadata line with no url line before the next
\* metadata line or the end of input gives no record, and every other
\* metadata line gives its own record with its own url
C10_OrphanDropped ==
    m3u_out # <<>> => m3u_out[1] = OwnRecords(StripAll(m3u_text), 1)

\* ------------------------------------------------------------------------
\* The record name: both parsers of the repository applied to one metadata
\* line and its url line (SpecName).  src/Backend/app.py holds the older
\* parse_m3u, src/Backend/main/app.py the parse_m3u_index modelled above.
\* ------------------------------------------------------------------------
\* ln.startswith("#EXTINF:") of parse_m3u (a line of the model without a
\* duration stands for a bare #EXTINF)
StartsExtinfColon(ln) == ln.kind = "extinf" /\ ln.dur

\* ln.startswith("http") of parse_m3u (the url texts of the model are http urls)
StartsHttp(ln) == ln.kind = "url"

\* lines = [ln.strip() for ln in text.splitlines() if ln.strip()]
RECURSIVE NonBlank(_)
NonBlank(text) ==
    IF text = <<>> THEN <<>>
    ELSE IF Strip(text[1]).kind = "blank" THEN NonBlank(Tail(text))
         ELSE <<Strip(text[1])>> \o NonBlank(Tail(text))

\* name of parse_m3u at an #EXTINF: line: the text after the first comma when
\* the line has one, else tvg-name or tvg-id or "Unknown"
OldName(ln) ==
    IF ln.comma THEN ln.name
    ELSE Or(Or(AttrGet(ln.attrs, "tvg-name"), AttrGet(ln.attrs, "tvg-id")), "Unknown")

\* the for loop of parse_m3u; st = [attrs, name, logo] carried between lines
RECURSIVE ParseOldLoop(_, _, _, _)
ParseOldLoop(lines, i, st, out) ==
    IF i > Len(lines) THEN out
    ELSE IF StartsExtinfColon(lines[i])
         THEN ParseOldLoop(lines, i + 1,
                           [attrs |-> lines[i].attrs, name |-> OldName(lines[i]),
                            logo |-> AttrGet(lines[i].attrs, "tvg-logo")], out)
    ELSE IF StartsHttp(lines[i])
         THEN ParseOldLoop(lines, i + 1,
                           [attrs |-> <<>>, name |-> None, logo |-> None],
                           Append(out,
                                  [name |-> Or(st.name, "Unknown"),
                                   logo |-> st.logo,
                                   url |-> lines[i].text,
                                   tvg_language |-> AttrGet(st.attrs, "tvg-language"),
                                   tvg_country |-> AttrGet(st.attrs, "tvg-country"),
                                   group_title |-> AttrGet(st.attrs, "group-title")]))
    ELSE ParseOldLoop(lines, i + 1, st, out)

\* parse_m3u(text) of src/Backend/app.py
parse_m3u(text) ==
    ParseOldLoop(NonBlank(text), 1, [attrs |-> <<>>, name |-> None, logo |-> None], <<>>)

\* the attribute pieces of a metadata line: tvg-name and tvg-id each absent,
\* empty or set
NameAttrs ==
    {n \o i : n \in {<<>>, << <<"tvg-name", "">> >>, << <<"tvg-name", "N">> >>},
              i \in {<<>>, << <<"tvg-id", "">> >>, << <<"tvg-id", "i">> >>}}

\* metadata lines: with the comma and a free-text name, with the comma and
\* nothing after it, without the comma
NameLines ==
    {[kind |-> "extinf", dur |-> TRUE, attrs |-> a, comma |-> TRUE, name |-> n] :
        a \in NameAttrs, n \in {"", "T"}}
    \cup {[kind |-> "extinf", dur |-> TRUE, attrs |-> a, comma |-> FALSE, name |-> ""] :
        a \in NameAttrs}

NameTexts ==
    {pre \o <<m, UrlLine(u)>> :
        pre \in {<<>>, <<HeaderLine>>, <<BlankLine>>, << [kind |-> "spaces"] >>},
        m \in NameLines, u \in {"u1", "u2"}}

InitName ==
    /\ InitSystem
    /\ m3u_text \in NameTexts
    /\ m3u_out = <<>>
    /\ NoClassify

\* items = list(parse_m3u(text)), the older parser
ParseOld ==
    /\ m3u_out = <<>>
    /\ m3u_out' = << parse_m3u(m3u_text), "parse_m3u" >>
    /\ UNCHANGED <<now, cache_items, last_loaded, validated_map, cache_lock,
                   list_count, job, trig, task, req, load, gather, m3u_text,
                   hls_in, hls_out>>

NextName == Parse \/ ParseOld

SpecName == InitName /\ [][NextName]_vars

\* the free-text name of a metadata line: None when the line has no comma
FreeText(ln) == IF ln.comma THEN ln.name ELSE None

\* the name the precedence gives: tvg-name, else the free text, else tvg-id,
\* else "Unknown" (an empty value counts as absent)
ClaimedName(ln) ==
    Or(Or(Or(AttrGet(ln.attrs, "tvg-name"), FreeText(ln)),
          AttrGet(ln.attrs, "tvg-id")),
       "Unknown")

\* C11 (as claimed): the name of every parsed record is the tvg-name
\* attribute if present, else the trailing free-text name, else tvg-id, else
\* "Unknown", for every combination of present, absent and empty values
C11_NamePrecedence ==
    m3u_out # <<>> =>
        LET lines == StripAll(m3u_text)
            idx == MetaIndices(lines, 1)
        IN /\ Len(m3u_out[1]) = Len(idx)
           /\ \A k \in 1..Len(idx) : m3u_out[1][k].name = ClaimedName(lines[idx[k]])

\* ------------------------------------------------------------------------
\* The classifier alone: _detect_hls_from_headers_and_sample applied to
\* every content-type of ClassifyCts and every sample of at most
\* MaxSampleLines lines over SampleLines (SpecClassify)
\* ------------------------------------------------------------------------
\* longest body sample (in lines) given to the classifier
MaxSampleLines == 2

\* content-type values: absent, the manifest types in several spellings and
\* with a parameter, and types that are no manifest type
ClassifyCts ==
    {<<>>,
     CtMpegurl,
     <<"Application", "/", "vnd.apple.", "MPEGURL">>,
     <<"application", "/", "x-", "mpegurl">>,
     <<"audio", "/", "mpegurl">>,
     <<"audio", "/", "x-", "MPEGURL">>,
     <<"application", "/", "vnd.apple.", "mpegurl", ";", "charset=utf-8">>,
     <<"video", "/", "mp2t">>,
     <<"VIDEO", "/", "mp4">>,
     <<"text", "/", "plain">>,
     <<"application", "/", "octet-stream">>}

\* a variant-stream line carrying CODECS="..." with the given codec names
VariantLine(codecs) ==
    [toks |-> <<"#EXT-X-STREAM-INF", ":BANDWIDTH=1,CODECS=">>, codecs |-> codecs]

SampleLines ==
    {[toks |-> <<"#EXTM3U">>, codecs |-> <<>>],
     [toks |-> <<"#EXTINF", ":-1,", "name">>, codecs |-> <<>>],
     [toks |-> <<"#EXT-X-STREAM-INF", ":BANDWIDTH=1">>, codecs |-> <<>>],
     VariantLine(<< <<"avc", "1.42E01E">>, <<"mp4a", ".40.2">> >>),
     VariantLine(<< <<"hvc", "1.1.6">> >>),
     VariantLine(<< <<"hvc", "1.1.6">>, <<"ec-3">> >>),
     VariantLine(<< <<"ec-3">>, <<"MP4A", ".40.2">> >>),
     VariantLine(<< <<"AVC", "1.42E01E">> >>),
     [toks |-> <<"000", "x18", "ftyp", "isom">>, codecs |-> <<>>],
     [toks |-> <<"xff", "xd8">>, codecs |-> <<>>]}

Samples == UNION {[1..n -> SampleLines] : n \in 0..MaxSampleLines}

InitClassify ==
    /\ InitSystem
    /\ m3u_text = <<>>
    /\ m3u_out = <<>>
    /\ hls_in \in [ct : ClassifyCts, sample : Samples]
    /\ hls_out = <<>>

\* is_hls, reason = _detect_hls_from_headers_and_sample(headers, sample)
Classify ==
    /\ hls_out = <<>>
    /\ hls_out' = << detect_hls(hls_in.ct, hls_in.sample) >>
    /\ UNCHANGED <<now, cache_items, last_loaded, validated_map, cache_lock,
                   list_count, job, trig, task, req, load, gather,
                   m3u_text, m3u_out, hls_in>>

NextClassify == Classify

SpecClassify == InitClassify /\ [][NextClassify]_vars

\* the media type of a content-type value: what precedes the first ";"
RECURSIVE MediaType(_)
MediaType(ct) ==
    IF ct = <<>> \/ ct[1] = ";" THEN <<>>
    ELSE <<ct[1]>> \o MediaType(Tail(ct))

\* the manifest MIME types
ManifestMimeTypes ==
    {<<"application", "/", "vnd.apple.", "mpegurl">>,
     <<"application", "/", "x-", "mpegurl">>,
     <<"audio", "/", "mpegurl">>,
     <<"audio", "/", "x-", "mpegurl">>}

\* the content-type names a manifest MIME type, in any letter case
RecognizedManifestType(ct) == Lower(MediaType(ct)) \in ManifestMimeTypes

\* C12: for every input whose content-type is a recognized manifest MIME
\* type the classifier answers compatible, whatever the body sample is
C12_ManifestTypeCompatible ==
    (hls_out # <<>> /\ RecognizedManifestType(hls_in.ct)) => hls_out[1].hls

\* C12 witness: a manifest content-type in upper case came with a playlist
\* whose codecs are all unrecognized, and the answer was compatible
C12_Witness ==
    /\ hls_out # <<>>
    /\ hls_in.ct = <<"audio", "/", "x-", "MPEGURL">>
    /\ hls_in.sample = << [toks |-> <<"#EXTM3U">>, codecs |-> <<>>],
                          VariantLine(<< <<"hvc", "1.1.6">> >>) >>
    /\ hls_out[1].hls

\* the sample holds one of the manifest markers
MarkersPresent(sample) ==
    \E i \in 1..Len(sample) : \E k \in 1..Len(sample[i].toks) :
        sample[i].toks[k] \in {"#EXTM3U", "#EXTINF", "#EXT-X-STREAM-INF"}

\* the codec names listed by the variant-stream lines of the sample
VariantCodecs(sample) ==
    UNION {{Lower(sample[i].codecs[k]) : k \in 1..Len(sample[i].codecs)} :
              i \in {j \in 1..Len(sample) : sample[j].toks[1] = "#EXT-X-STREAM-INF"}}

\* the codec belongs to a known-safe family (AVC/H.264 video, AAC audio)
KnownSafe(c) == c[1] \in {"avc", "h264", "mp4a", "aac"}

\* the content-type gives no hint of a manifest
NoManifestHint(ct) ==
    \A k \in 1..Len(ct) : Lower(ct)[k] \notin {"mpegurl", "m3u8"}

\* C13: without a manifest content-type, a sample with manifest markers and
\* a codec list of which no entry is known-safe is judged not compatible
\* with the codec list in the reason; with at least one known-safe entry,
\* or with markers and no codec list, it is judged compatible
C13_CodecDecision ==
    (hls_out # <<>> /\ NoManifestHint(hls_in.ct) /\ MarkersPresent(hls_in.sample)) =>
        LET listed == VariantCodecs(hls_in.sample)
            r == hls_out[1]
        IN IF listed = {} THEN r.hls
           ELSE IF \E c \in listed : KnownSafe(c) THEN r.hls
           ELSE /\ ~r.hls
                /\ Len(r.reason) = 2
                /\ {r.reason[2][k] : k \in 1..Len(r.reason[2])} = listed

\* C13 witness: a playlist listing only unrecognized codecs, served as
\* video, was judged not compatible
C13_Witness ==
    /\ hls_out # <<>>
    /\ hls_in.ct = <<"video", "/", "mp2t">>
    /\ hls_in.sample = << [toks |-> <<"#EXTM3U">>, codecs |-> <<>>],
                          VariantLine(<< <<"hvc", "1.1.6">>, <<"ec-3">> >>) >>
    /\ ~hls_out[1].hls
    /\ hls_out[1].reason[2] = << <<"hvc", "1.1.6">>, <<"ec-3">> >>

\* ------------------------------------------------------------------------
\* The bulk run with failing probes (SpecRun): one trigger request, the task
\* it creates, a manifest of three channels (two chunks) or of none, a
\* manifest fetch that may fail, and probes that answer 200, answer an
\* error status, get no answer, or end with an exception
\* ------------------------------------------------------------------------
\* what the network does to the probes of SpecRun
NetRun == {NetRaised, NetOk, NetNotFound}

NextRun ==
    \/ Tick
    \/ LoadEnter(Tid(1))
    \/ \E text \in {TextEmpty, TextThree} : FetchOk(Tid(1), text)
    \/ FetchFail(Tid(1))
    \/ \E k \in ProbeIds : ProbeStart(Tid(1), k)
    \/ \E k \in ProbeIds, out \in NetRun : ProbeHead(Tid(1), k, out)
    \/ \E k \in ProbeIds, out \in NetRun : ProbeGet(Tid(1), k, out)
    \/ \E k \in ProbeIds : ProbeRaise(Tid(1), k)
    \/ \E force \in BOOLEAN : Trigger(1, force)
    \/ TaskStart(1)
    \/ TaskLoaded(1)
    \/ TaskLoadFailed(1)
    \/ TaskChunkDone(1)
    \/ TaskFinish(1)

SpecRun == Init /\ [][NextRun]_vars

\* the steps of the run and of the network it waits for: every one of them
\* is taken once it can be (the event loop resumes a ready coroutine, and
\* every network call returns, fails or times out)
RunSteps ==
    \/ LoadEnter(Tid(1))
    \/ \E text \in {TextEmpty, TextThree} : FetchOk(Tid(1), text)
    \/ FetchFail(Tid(1))
    \/ \E k \in ProbeIds : ProbeStart(Tid(1), k)
    \/ \E k \in ProbeIds, out \in NetRun : ProbeHead(Tid(1), k, out)
    \/ \E k \in ProbeIds, out \in NetRun : ProbeGet(Tid(1), k, out)
    \/ \E k \in ProbeIds : ProbeRaise(Tid(1), k)
    \/ TaskStart(1)
    \/ TaskLoaded(1)
    \/ TaskLoadFailed(1)
    \/ TaskChunkDone(1)
    \/ TaskFinish(1)

SpecRunFair == SpecRun /\ WF_vars(RunSteps)

\* ------------------------------------------------------------------------
\* Properties of the bulk run (SpecRun, SpecRunFair)
\* ------------------------------------------------------------------------
\* the urls of the probes scheduled for the run of task i
RunUrls(i) ==
    {WithUrl(task[i].items)[k].url : k \in 1..Len(WithUrl(task[i].items))}

\* probe k of caller p ends in this step with a result that is a failure
ProbeFails(p, k) ==
    /\ k \in DOMAIN gather[p] /\ k \in DOMAIN gather'[p]
    /\ gather[p][k].pc # "done" /\ gather'[p][k].pc = "done"
    /\ ~gather'[p][k].res[1].working

\* C14: a failed probe never ends the bulk run: running is true while the
\* run has probes to gather or results to store, the step in which a probe
\* fails leaves running as it is, and the step that sets running to false
\* after the probes were scheduled finds a result of this run recorded in
\* the Validation Cache for every url of the run
C14_FailedProbeKeepsRunning ==
    /\ [](\A i \in TrigIds : task[i].pc \in {"gather", "closing"} => job.running)
    /\ [][\A p \in Pids : \A k \in ProbeIds :
            ProbeFails(p, k) => job'.running = job.running]_vars
    /\ [][(job.running /\ ~job'.running) =>
            \E i \in TrigIds :
                /\ task[i].pc \in {"loading", "closing"}
                /\ task'[i].pc \in {"done", "failed"}
                /\ \A u \in RunUrls(i) :
                      /\ u \in DOMAIN validated_map'
                      /\ validated_map'[u].last_checked >= job.started_at]_vars

\* C14 witness: a run over three urls ended after one probe got no answer,
\* one got an error status and one ended with an exception
C14_Witness ==
    /\ task[1].pc = "done"
    /\ ~job.running
    /\ DOMAIN validated_map = {"u1", "u2", "u3"}
    /\ \E u \in DOMAIN validated_map : validated_map[u].check_error = <<"HTTP status", 0>>
    /\ \E u \in DOMAIN validated_map : validated_map[u].check_error = <<"HTTP status", 404>>
    /\ \E u \in DOMAIN validated_map : validated_map[u].check_error = <<"str(exception)">>

\* C16: every run that has set running=true returns to idle: running is
\* false again, finished_at is stamped, and neither the cache lock nor a
\* permit of the admission gate is held
C16_RunReturnsToIdle ==
    job.running ~> (/\ ~job.running
                    /\ job.finished_at # NoTime
                    /\ cache_lock = Free
                    /\ InFlightTotal = 0)

\* C16 witness: the run whose manifest fetch failed is idle again, stamped,
\* with the cache lock free
C16_Witness ==
    /\ task[1].pc = "failed"
    /\ ~job.running
    /\ job.started_at # NoTime
    /\ job.finished_at # NoTime
    /\ cache_lock = Free
    /\ InFlightTotal = 0

\* ------------------------------------------------------------------------
\* Progress of the bulk job under interleaving (SpecProgress): two trigger
\* requests and one listing request that validates its page and may
\* refresh the channel cache, over manifests of one and of three channels
\* ------------------------------------------------------------------------
NextProgress ==
    \/ \E p \in {Tid(1), Tid(2), Rid(1)} : LoadEnter(p)
    \/ \E p \in {Tid(1), Tid(2), Rid(1)}, text \in {TextOne, TextThree} : FetchOk(p, text)
    \/ \E p \in {Tid(1), Tid(2), Rid(1)}, k \in ProbeIds : ProbeStart(p, k)
    \/ \E p \in {Tid(1), Tid(2), Rid(1)}, k \in ProbeIds, out \in NetFew :
            ProbeHead(p, k, out)
    \/ \E p \in {Tid(1), Tid(2), Rid(1)}, k \in ProbeIds : ProbeGet(p, k, NetRaised)
    \/ \E i \in {1, 2} : Trigger(i, FALSE)
    \/ \E i \in {1, 2} : TaskStart(i)
    \/ \E i \in {1, 2} : TaskLoaded(i)
    \/ \E i \in {1, 2} : TaskChunkDone(i)
    \/ \E i \in {1, 2} : TaskFinish(i)
    \/ \E refresh \in BOOLEAN : ListStart(1, refresh, TRUE, FALSE, 1)
    \/ ListLoaded(1)
    \/ ListGathered(1)
    \/ ListAssemble(1)

SpecProgress == Init /\ [][NextProgress]_vars

\* C15: progress is 0 in the step that starts a run, and from one state of
\* a run to the next it never decreases (progress is the fraction num/den)
C15_ProgressMonotone ==
    [][/\ (~job.running /\ job'.running) => job'.progress.num = 0
       /\ (job.running /\ job'.running) =>
            job'.progress.num * job.progress.den
                >= job.progress.num * job'.progress.den]_vars

\* C15 witness: a second run has made progress after the first one ended,
\* while the listing request had its page validated
C15_Witness ==
    /\ task[1].pc = "done"
    /\ task[2].pc = "gather"
    /\ job.running
    /\ job.progress.num > 0
    /\ req[1].pc \in {"v1close", "done"}

\* ------------------------------------------------------------------------
\* One listing request with probes of every outcome (SpecProbe): the
\* request validates its page, filters on working channels, or neither,
\* over a manifest of three channels
\* ------------------------------------------------------------------------
NextProbe ==
    \/ Tick
    \/ LoadEnter(Rid(1))
    \/ FetchOk(Rid(1), TextThree)
    \/ \E k \in ProbeIds : ProbeStart(Rid(1), k)
    \/ \E k \in ProbeIds, out \in NetOutcomes : ProbeHead(Rid(1), k, out)
    \/ \E k \in ProbeIds, out \in NetOutcomes : ProbeGet(Rid(1), k, out)
    \/ \E k \in ProbeIds : ProbeRaise(Rid(1), k)
    \/ \E validate, working_only \in BOOLEAN, page \in 1..MaxPage :
            ListStart(1, FALSE, validate, working_only, page)
    \/ ListLoaded(1)
    \/ ListGathered(1)
    \/ ListAssemble(1)
    \/ ListRespond(1)

SpecProbe == Init /\ [][NextProbe]_vars

\* ------------------------------------------------------------------------
\* Properties of the probe (SpecProbe)
\* ------------------------------------------------------------------------
\* C17: every result validate_channel_entry has built for a url carries
\* last_checked, also when HEAD and GET both failed, and has working false
\* when the url was not reached (status 0) or the final status is 400 or
\* above; every entry of the Validation Cache carries last_checked
C17_CheckedAtAlwaysSet ==
    /\ \A p \in Pids : \A k \in DOMAIN gather[p] :
          (gather[p][k].pc = "done" /\ ~IsException(gather[p][k].res[1])) =>
              /\ gather[p][k].res[1].last_checked # NoTime
              /\ (gather[p][k].status = 0 \/ gather[p][k].status >= 400)
                    => ~gather[p][k].res[1].working
    /\ \A u \in DOMAIN validated_map : validated_map[u].last_checked # NoTime

\* C17 witness: the Validation Cache holds the result of a probe whose HEAD
\* and GET both failed and the result of a probe answered with 500, both
\* stamped and not working
C17_Witness ==
    \E u, v \in DOMAIN validated_map :
        /\ validated_map[u].check_error = <<"HTTP status", 0>>
        /\ validated_map[v].check_error = <<"HTTP status", 500>>
        /\ ~validated_map[u].working /\ ~validated_map[v].working
        /\ validated_map[u].last_checked # NoTime
        /\ validated_map[v].last_checked # NoTime

\* ------------------------------------------------------------------------
\* Listing requests over a filled Validation Cache (SpecFilter): two
\* requests list a page of a manifest of three channels, each
\* validating its page, filtering on working channels, both or neither;
\* a probe is answered with 200 or with 404, and the clock advances so
\* that cached results go stale.  A request arrives after the one before it
\* was answered.
\* ------------------------------------------------------------------------
NetFilter == {NetOk, NetNotFound}

NextFilter ==
    \/ Tick
    \/ \E r \in {1, 2} : LoadEnter(Rid(r))
    \/ \E r \in {1, 2} : FetchOk(Rid(r), TextThree)
    \/ \E r \in {1, 2}, k \in ProbeIds : ProbeStart(Rid(r), k)
    \/ \E r \in {1, 2}, k \in ProbeIds, out \in NetFilter : ProbeHead(Rid(r), k, out)
    \/ \E r \in {1, 2}, k \in ProbeIds : ProbeGet(Rid(r), k, NetNotFound)
    \/ \E r \in {1, 2}, validate, working_only \in BOOLEAN, page \in 1..MaxPage :
            /\ (r > 1 => req[r - 1].pc = "done")
            /\ ListStart(r, FALSE, validate, working_only, page)
    \/ \E r \in {1, 2} : ListLoaded(r)
    \/ \E r \in {1, 2} : ListGathered(r)
    \/ \E r \in {1, 2} : ListAssemble(r)
    \/ \E r \in {1, 2} : ListRespond(r)

SpecFilter == Init /\ [][NextFilter]_vars

\* the same requests arriving at any time, also while another is served
NextFilterConcurrent ==
    \/ NextFilter
    \/ \E r \in {1, 2}, validate, working_only \in BOOLEAN, page \in 1..MaxPage :
            ListStart(r, FALSE, validate, working_only, page)

SpecFilterConcurrent == Init /\ [][NextFilterConcurrent]_vars

\* ------------------------------------------------------------------------
\* Properties of the listing requests (SpecFilter)
\* ------------------------------------------------------------------------
\* the urls of a sequence of records that have a url field
UrlsOf(es) == {es[k].url : k \in {j \in 1..Len(es) : Truthy(es[j].url)}}

\* request r is answered in this step
Answers(r) == req[r].pc # "done" /\ req'[r].pc = "done"

\* C18: with working_only, the step that finds page items without an entry
\* in the Validation Cache starts a probe for each of them, the response is
\* built only when every page item has an entry, and every channel of the
\* response is working according to the entry the cache holds for its url
C18_WorkingOnlyStrict ==
    [][\A r \in ReqIds :
        /\ (req[r].pc # "v2" /\ req'[r].pc = "v2") =>
              /\ UrlsOf(gather'[Rid(r)]) =
                    {u \in UrlsOf(req'[r].page_items) : u \notin DOMAIN validated_map}
              /\ UrlsOf(gather'[Rid(r)]) # {}
        /\ (Answers(r) /\ req'[r].working_only) =>
              /\ UrlsOf(req'[r].page_items) \subseteq DOMAIN validated_map
              /\ \A k \in 1..Len(req'[r].out) :
                    /\ req'[r].out[k].working = "True"
                    /\ req'[r].out[k].url \in DOMAIN validated_map
                    /\ validated_map[req'[r].out[k].url].working]_vars

\* C18 witness: a request with working_only and without validate was
\* answered with one of the two channels of its page, after probing a page
\* item that had no entry
C18_Witness ==
    \E r \in ReqIds :
        /\ req[r].pc = "done"
        /\ req[r].working_only /\ ~req[r].validate
        /\ req[r].entries # <<>>
        /\ Len(req[r].page_items) = 2
        /\ Len(req[r].out) = 1

\* request r calls validate_channels_for_list in this step
CallsValidate(r) ==
    \/ req[r].pc = "loading" /\ req'[r].pc \in {"v1", "v1close", "v2"}
    \/ req[r].pc = "v1close" /\ req'[r].pc \in {"v2", "v2close"}

\* the url has a result younger than CHANNEL_CACHE_TTL
FreshResult(u) ==
    u \in DOMAIN validated_map /\ now - validated_map[u].last_checked < CHANNEL_CACHE_TTL

\* C20: a call of validate_channels_for_list starts probes for exactly the
\* urls of the entries passed to it that have no result or a stale one: none
\* for a url outside the entries, none for a url with a fresh result
C20_ProbesOnlyStalePageUrls ==
    [][\A r \in ReqIds :
        CallsValidate(r) =>
            /\ UrlsOf(req'[r].entries) \subseteq UrlsOf(req'[r].page_items)
            /\ UrlsOf(gather'[Rid(r)]) =
                  {u \in UrlsOf(req'[r].entries) : ~FreshResult(u)}]_vars

\* C20 witness: a request validating a page of two channels probes one of
\* them, the other having a fresh result, after the clock has advanced
C20_Witness ==
    \E r \in ReqIds :
        /\ req[r].pc = "v1"
        /\ Len(req[r].entries) = 2
        /\ Len(gather[Rid(r)]) = 1
        /\ now > 0
        /\ \E u \in DOMAIN validated_map : now - validated_map[u].last_checked >= CHANNEL_CACHE_TTL

\* ------------------------------------------------------------------------
\* Properties of the count and summary requests (SpecLoad)
\* ------------------------------------------------------------------------
\* request r, or the _load_channels call it awaits, takes this step
StepOf(r) == req'[r] # req[r] \/ load'[Rid(r)] # load[Rid(r)]

\* C19 (as claimed): no step of a count or summary request starts a probe
\* or changes the Validation Cache, the validation job, or the items and
\* last_loaded of the Channel Cache
C19_CountReadOnly ==
    [][\A r \in ReqIds :
        (req[r].kind \in {"count", "summary"} /\ StepOf(r)) =>
            /\ gather' = gather
            /\ validated_map' = validated_map
            /\ job' = job
            /\ cache_items' = cache_items
            /\ last_loaded' = last_loaded]_vars

\* ------------------------------------------------------------------------
\* Properties of the writes to the Validation Cache
\* ------------------------------------------------------------------------
\* what is stored for a result of a gather at this time
StoredFor(res) == IF IsException(res) THEN FromException(now) ELSE res

\* the entry of url u is written in this step (added, or replaced by
\* another result)
Written(u) ==
    /\ u \in DOMAIN validated_map'
    /\ (u \in DOMAIN validated_map => validated_map'[u] # validated_map[u])

\* C21 (as claimed): an entry written into the Validation Cache under a url
\* is the result of a probe of that url, in the bulk run and in the
\* request-scoped validation, for every mix of fresh, stale and missing
\* entries in the list being validated
C21_ResultUnderOwnUrl ==
    [][\A u \in {"u1", "u2", "u3"} :
        Written(u) =>
            \E p \in Pids : \E k \in DOMAIN gather[p] :
                /\ gather[p][k].pc = "done"
                /\ gather[p][k].url = u
                /\ StoredFor(gather[p][k].res[1]) = validated_map'[u]]_vars

\* the bulk run i stores the results of a gathered chunk in this step
StoresChunk(i) == task[i].pc = "gather" /\ task'[i] # task[i]

\* the results of the gathered chunk of run i
ChunkResults(i) == [k \in DOMAIN gather[Tid(i)] |-> gather[Tid(i)][k].res[1]]

\* how many results of the gathered chunk of run i are working=true, and
\* how many are exceptions raised by the probe
WorkingResults(i) ==
    Cardinality({k \in DOMAIN ChunkResults(i) :
                    ~IsException(ChunkResults(i)[k]) /\ ChunkResults(i)[k].working})
RaisedResults(i) ==
    Cardinality({k \in DOMAIN ChunkResults(i) : IsException(ChunkResults(i)[k])})

\* C22: during a bulk run the step that stores a chunk adds to validated
\* the number of results of the chunk with working=true and to errors the
\* number of probes of the chunk that raised (a probe that returned
\* working=false adds to neither); every other step leaves both counters
\* alone, except the admission of a run, which sets them to zero
C22_CountersCountResults ==
    [][IF \E i \in TrigIds : StoresChunk(i)
       THEN \E i \in TrigIds :
               /\ StoresChunk(i)
               /\ job'.validated = job.validated + WorkingResults(i)
               /\ job'.errors = job.errors + RaisedResults(i)
       ELSE \/ job'.validated = job.validated /\ job'.errors = job.errors
            \/ ~job.running /\ job'.running
                 /\ job'.validated = 0 /\ job'.errors = 0]_vars

\* C22 witness: a run over three urls ended with one working result, one
\* probe that raised and one that returned working=false
C22_Witness ==
    /\ task[1].pc = "done"
    /\ job.total = 3 /\ job.validated = 1 /\ job.errors = 1
    /\ \E u \in DOMAIN validated_map :
          validated_map[u].check_error = <<"HTTP status", 404>>

\* probe k of caller p has started: it holds or has held a permit
Started(p, k) == gather[p][k].pc # "wait"

\* the url has a result recorded by the current run
RecordedByRun(u) ==
    /\ u \in DOMAIN validated_map
    /\ validated_map[u].last_checked >= job.started_at

\* C23: the bulk run probes in manifest order in batches of chunk_size:
\* the probes being gathered are those of the chunk_size records (fewer in
\* the last batch) after the idx records already handled, in manifest
\* order, a probe has started only if it belongs to that batch, and every
\* record of the earlier batches has its result recorded
C23_BatchesInOrder ==
    \A i \in TrigIds :
        LET tasks == WithUrl(task[i].items)
            g == gather[Tid(i)]
        IN /\ task[i].pc = "gather" =>
                /\ task[i].idx % chunk_size = 0
                /\ task[i].idx < Len(tasks)
                /\ Len(g) = Min(chunk_size, Len(tasks) - task[i].idx)
                /\ \A k \in DOMAIN g : g[k].url = tasks[task[i].idx + k].url
                /\ \A n \in 1..task[i].idx : RecordedByRun(tasks[n].url)
           /\ task[i].pc # "gather" => g = <<>>

\* C23 witness: in the first batch the second probe has completed while
\* the first has not started, and no probe of the third record exists
C23_Witness ==
    /\ task[1].pc = "gather" /\ task[1].idx = 0 /\ task[1].total = 3
    /\ Len(gather[Tid(1)]) = 2
    /\ ~Started(Tid(1), 1)
    /\ gather[Tid(1)][2].pc = "done"

\* C23 witness of the second batch: the probe of the third record has
\* started after the results of the first two were recorded
C23_WitnessLater ==
    /\ task[1].pc = "gather" /\ task[1].idx = chunk_size
    /\ Started(Tid(1), 1)
    /\ gather[Tid(1)][1].url = "u3"

\* the final response status is 2xx
Is2xx(status) == 200 <= status /\ status < 300

\* C24 (as claimed): the result of a probe that got a final response is
\* working=true exactly when the final status is 2xx, and for every other
\* final status it is working=false with the status code as check_error
C24_WorkingIff2xx ==
    \A p \in Pids : \A k \in DOMAIN gather[p] :
        (gather[p][k].pc = "done" /\ ~IsException(gather[p][k].res[1])
            /\ gather[p][k].status # 0) =>
          LET res == gather[p][k].res[1]
              status == gather[p][k].status
          IN /\ res.working <=> Is2xx(status)
             /\ ~Is2xx(status) =>
                   res.check_error = <<"HTTP status", status>>

\* the sample holds the manifest header marker
HeaderMarker(sample) ==
    \E i \in 1..Len(sample) : \E k \in 1..Len(sample[i].toks) :
        sample[i].toks[k] = "#EXTM3U"

\* the sample holds a track-information or variant-stream marker
TrackMarker(sample) ==
    \E i \in 1..Len(sample) : \E k \in 1..Len(sample[i].toks) :
        sample[i].toks[k] \in {"#EXTINF", "#EXT-X-STREAM-INF"}

\* C25 (as claimed): a response without a manifest content-type is judged
\* compatible only when its sample holds the header marker and at least
\* one track-information marker; a sample with one kind of marker only is
\* not judged compatible
C25_BothMarkersNeeded ==
    (hls_out # <<>> /\ NoManifestHint(hls_in.ct) /\ hls_out[1].hls) =>
        (HeaderMarker(hls_in.sample) /\ TrackMarker(hls_in.sample))

\* the fields of a probe result
ResultFields == {"working", "hls_compatible", "last_checked", "check_error"}

\* C26: a step that replaces the channel list leaves the Validation Cache
\* as it is, no step removes a key of the Validation Cache, and an entry
\* that is written is a whole result: the result of a probe that a gather
\* of this step handed back
C26_ValidationCacheOnlyGrows ==
    [][/\ DOMAIN validated_map \subseteq DOMAIN validated_map'
       /\ (cache_items' # cache_items \/ last_loaded' # last_loaded) =>
             validated_map' = validated_map
       /\ \A u \in DOMAIN validated_map' :
             Written(u) =>
                /\ DOMAIN validated_map'[u] = ResultFields
                /\ \E p \in Pids : \E k \in DOMAIN gather[p] :
                      /\ gather[p][k].pc = "done"
                      /\ StoredFor(gather[p][k].res[1]) = validated_map'[u]]_vars

\* C26 witness: the refresh asked for by a listing request has just
\* replaced the three-channel list by a one-channel list, and the
\* Validation Cache holds the results of all three urls
C26_Witness ==
    /\ req[1].pc = "loading" /\ req[1].refresh
    /\ load[Rid(1)].pc = "ret"
    /\ cache_items # <<>> /\ cache_items[1].oid >= 2
    /\ Len(cache_items[1].list) = 1
    /\ load[Rid(1)].ret = cache_items
    /\ DOMAIN validated_map = {"u1", "u2", "u3"}

\* the positions of the records of the snapshot of run i that bear a url
SnapshotRecords(i) ==
    {k \in 1..Len(task[i].items) : Truthy(task[i].items[k].url)}

\* the urls of the snapshot of run i
SnapshotUrls(i) == {task[i].items[k].url : k \in SnapshotRecords(i)}

\* run i is between its load and its finally block
Working(i) == task[i].pc \in {"gather", "closing"}

\* C27: a bulk run works on the list that its _load_channels call returned:
\* the step that ends the load takes that list as the snapshot, total is
\* the number of url-bearing records of the snapshot, the probes are probes
\* of urls of the snapshot, no step of anyone (a refresh of the Channel
\* Cache included) changes the snapshot or total while the run works, and
\* the step that ends the run finds an entry for every url of the snapshot
C27_RunUsesSnapshot ==
    /\ [](\A i \in TrigIds : Working(i) =>
            /\ job.total = Cardinality(SnapshotRecords(i))
            /\ \A k \in DOMAIN gather[Tid(i)] :
                  gather[Tid(i)][k].url \in SnapshotUrls(i))
    /\ [][\A i \in TrigIds :
            /\ (task[i].pc = "loading" /\ Working(i)') =>
                  task'[i].items = ListOf(load[Tid(i)].ret)
            /\ (Working(i) /\ Working(i)') =>
                  /\ task'[i].items = task[i].items
                  /\ job'.total = job.total
            /\ (Working(i) /\ task'[i].pc = "done") =>
                  /\ job'.total = job.total
                  /\ SnapshotUrls(i) \subseteq DOMAIN validated_map']_vars

\* C27 witness: a run over a snapshot of three channels has stored all its
\* results while the Channel Cache holds a one-channel list loaded later
C27_Witness ==
    /\ task[1].pc = "closing"
    /\ Len(task[1].items) = 3 /\ job.total = 3
    /\ cache_items # <<>> /\ Len(cache_items[1].list) = 1
    /\ DOMAIN validated_map = {"u1", "u2", "u3"}

\* validate_channels_for_list of request r attaches its results in this step
AttachesResults(r) == req[r].pc \in {"v1", "v2"} /\ req'[r].pc # req[r].pc

\* the urls of the entries of request r that the call skipped: they have a
\* url and no probe of the call is for them
SkippedUrls(r) == UrlsOf(req[r].entries) \ UrlsOf(gather[Rid(r)])

\* C28 (as claimed): the step in which validate_channels_for_list attaches
\* its results leaves the entry of every url it skipped as fresh exactly as
\* it was
C28_SkippedEntryKept ==
    [][\A r \in ReqIds :
        AttachesResults(r) =>
            \A u \in SkippedUrls(r) :
                /\ u \in DOMAIN validated_map
                /\ validated_map'[u] = validated_map[u]]_vars

\* ------------------------------------------------------------------------
\* Properties of the job counters
\* ------------------------------------------------------------------------
\* C29 (as claimed): the progress of the job lies between 0 and 100 in
\* every reachable state
C29_ProgressInRange ==
    /\ 0 <= job.progress.num
    /\ job.progress.num <= 100 * job.progress.den

\* the records of the snapshot of run i whose results have been stored
Processed(i) ==
    LET tasks == WithUrl(task[i].items)
    IN {tasks[n].url : n \in 1..Min(task[i].idx, Len(tasks))}

\* C30: validated + errors never exceeds total, and while a run works and
\* when it is done the two counters are the numbers of results of this run
\* stored so far that are working=true and that stand for a raised probe
C30_CountersBounded ==
    /\ job.validated + job.errors <= job.total
    /\ \A i \in TrigIds :
          task[i].pc \in {"gather", "closing", "done"} =>
            /\ Processed(i) \subseteq DOMAIN validated_map
            /\ job.validated =
                 Cardinality({u \in Processed(i) : validated_map[u].working})
            /\ job.errors =
                 Cardinality({u \in Processed(i) :
                     validated_map[u].check_error = FromException(now).check_error})
            /\ job.validated + job.errors <= Cardinality(Processed(i))

\* C30 witness: after the first chunk of a run over three urls one result
\* is working and one probe raised; the third url is still to be probed
C30_Witness ==
    /\ task[1].pc = "gather" /\ task[1].idx = chunk_size
    /\ job.total = 3 /\ job.validated = 1 /\ job.errors = 1
    /\ Len(gather[Tid(1)]) = 1 /\ gather[Tid(1)][1].pc = "wait"

\* C31 (as claimed): every result built by validate_channel_entry and every
\* entry of the Validation Cache has hls_compatible=true only if it has
\* working=true, whatever the final status, headers and sample
C31_CompatibleOnlyIfWorking ==
    /\ \A p \in Pids : \A k \in DOMAIN gather[p] :
          (gather[p][k].pc = "done" /\ ~IsException(gather[p][k].res[1])) =>
             (gather[p][k].res[1].hls_compatible => gather[p][k].res[1].working)
    /\ \A u \in DOMAIN validated_map :
          validated_map[u].hls_compatible => validated_map[u].working

====
